---- MODULE Spec2Model ----
(***************************************************************************)
(* opendalr: the OpenDALOperator facade of src/rust/src/lib.rs over a      *)
(* storage backend.                                                        *)
(*                                                                         *)
(* Three layers are modelled:                                              *)
(*   - the storage namespace behind the operator (store),                  *)
(*   - the backend operator the facade forwards to (the op_* operators and *)
(*     the builder/OperatorNew operators): this is the opendal crate, whose*)
(*     code is not part of src/; its behaviour is taken from spec.md       *)
(*     sections 4.1-4.3 and 7,                                             *)
(*   - the facade methods of lib.rs (exists, stat, create_dir, list,       *)
(*     read_raw, write, delete, copy, rename, remove_all, new_fs, new_gcs, *)
(*     info), translated from the source.                                  *)
(*                                                                         *)
(* A path is the sequence of its components: "" is <<>>, "dir/file" is     *)
(* <<"dir", "file">>.  An Option is a sequence of length 0 (None) or 1     *)
(* (Some(v)).  A Result is a record [ok, err, val].                        *)
(***************************************************************************)
EXTENDS Integers, Sequences, FiniteSets, TLC

VARIABLES
    operator,   \* the value the last factory call handed to the caller
    ctor,       \* the last factory call: its arguments, built config, result
    infoSeen,   \* the last result of info() on the operator
    store,      \* the backend's namespace: path -> entry
    pre,        \* the namespace before the last operator call
    last        \* the last operator call: arguments, backend fault, result

vars == <<operator, ctor, infoSeen, store, pre, last>>

----------------------------------------------------------------------------
(* Bounds and input sets *)

MaxLen == 1

ByteVals == {0, 255}

ByteSeqs == UNION {[1..n -> ByteVals] : n \in 0..MaxLen}

Paths ==
    {<<>>, <<"x.txt">>, <<"dir">>, <<"dir", "file">>}

\* what the backend may answer independently of the namespace (spec.md 7)
Faults == {"none", "PermissionError"}

----------------------------------------------------------------------------
(* Results and options *)

Ok(v) == [ok |-> TRUE, err |-> "none", val |-> v]

Err(k) == [ok |-> FALSE, err |-> k, val |-> "none"]

None == <<>>

Some(v) == <<v>>

----------------------------------------------------------------------------
(* The namespace *)

NoEntry == [kind |-> "none", data |-> <<>>]

DirEntry == [kind |-> "dir", data |-> <<>>]

FileEntry(d) == [kind |-> "file", data |-> d]

IsPrefix(a, b) == Len(a) <= Len(b) /\ SubSeq(b, 1, Len(a)) = a

Ancestors(p) == {q \in Paths : IsPrefix(q, p) /\ q # p}

Children(S, p) ==
    {q \in Paths : Len(q) = Len(p) + 1 /\ IsPrefix(p, q) /\ S[q].kind # "none"}

Blocked(S, p) == \E q \in Ancestors(p) : S[q].kind = "file"

Put(S, p, e) ==
    [q \in Paths |-> IF q = p THEN e
                     ELSE IF q \in Ancestors(p) THEN DirEntry
                     ELSE S[q]]

EmptyRoot == [q \in Paths |-> IF q = <<>> THEN DirEntry ELSE NoEntry]

\* the orders in which the backend may enumerate the children of p
Orders(S, p) ==
    LET c == Children(S, p)
    IN  {s \in [1..Cardinality(c) -> c] : \A i, j \in DOMAIN s : i # j => s[i] # s[j]}

----------------------------------------------------------------------------
(* The backend operator (opendal BlockingOperator), from spec.md 4.2, 4.3, 7.
   Each operator takes the namespace, the call's arguments and the fault the
   backend answers with, and yields [res, raw, store]: the result handed to
   the facade, the backend's own response kind, and the namespace after the
   call.  A failed request leaves the namespace as it was. *)

Reply(r, S) == [res |-> r, raw |-> IF r.ok THEN "ok" ELSE r.err, store |-> S]

Metadata(e) ==
    [is_file |-> e.kind = "file", is_dir |-> e.kind = "dir",
     content_length |-> Len(e.data)]

op_stat(S, path, f) ==
    IF f # "none" THEN Reply(Err(f), S)
    ELSE IF S[path].kind = "none" THEN Reply(Err("NotFoundError"), S)
    ELSE Reply(Ok(Metadata(S[path])), S)

\* exists: the one place where a not-found response becomes a normal value
op_exists(S, path, f) ==
    LET r == op_stat(S, path, f)
    IN  IF r.res.ok THEN [res |-> Ok(TRUE), raw |-> r.raw, store |-> S]
        ELSE IF r.res.err = "NotFoundError"
             THEN [res |-> Ok(FALSE), raw |-> r.raw, store |-> S]
        ELSE r

op_create_dir(S, path, f) ==
    IF f # "none" THEN Reply(Err(f), S)
    ELSE IF S[path].kind = "file" \/ Blocked(S, path)
         THEN Reply(Err("NotADirectoryError"), S)
    ELSE Reply(Ok("unit"), Put(S, path, DirEntry))

\* ord: the order in which the backend enumerates the children
op_list(S, path, ord, f) ==
    IF f # "none" THEN Reply(Err(f), S)
    ELSE IF S[path].kind = "none" THEN Reply(Err("NotFoundError"), S)
    ELSE IF S[path].kind = "file" THEN Reply(Err("NotADirectoryError"), S)
    ELSE Reply(Ok([i \in DOMAIN ord |-> [path |-> ord[i], meta |-> Metadata(S[ord[i]])]]), S)

\* Entry::name: the last component of the entry's path
EntryName(e) == <<e.path[Len(e.path)]>>

op_read(S, path, f) ==
    IF f # "none" THEN Reply(Err(f), S)
    ELSE IF S[path].kind = "none" THEN Reply(Err("NotFoundError"), S)
    ELSE IF S[path].kind = "dir" THEN Reply(Err("IsADirectoryError"), S)
    ELSE Reply(Ok(S[path].data), S)

op_write(S, path, data, f) ==
    IF f # "none" THEN Reply(Err(f), S)
    ELSE IF path = <<>> \/ S[path].kind = "dir" THEN Reply(Err("IsADirectoryError"), S)
    ELSE IF Blocked(S, path) THEN Reply(Err("NotADirectoryError"), S)
    ELSE Reply(Ok(Metadata(FileEntry(data))), Put(S, path, FileEntry(data)))

\* a single entry: a directory that still has children is not removed
op_delete(S, path, f) ==
    IF f # "none" THEN Reply(Err(f), S)
    ELSE IF S[path].kind = "none" THEN Reply(Ok("unit"), S)
    ELSE IF Children(S, path) # {} THEN Reply(Err("BackendError"), S)
    ELSE Reply(Ok("unit"), [S EXCEPT ![path] = NoEntry])

\* where the copied or moved entry cannot be put
DestinationError(S, from, to) ==
    IF S[from].kind = "none" THEN "NotFoundError"
    ELSE IF S[from].kind = "dir" THEN "IsADirectoryError"
    ELSE IF from = to THEN "BackendError"
    ELSE IF to = <<>> \/ S[to].kind = "dir" THEN "IsADirectoryError"
    ELSE IF Blocked(S, to) THEN "NotADirectoryError"
    ELSE "none"

op_copy(S, from, to, f) ==
    IF f # "none" THEN Reply(Err(f), S)
    ELSE IF DestinationError(S, from, to) # "none"
         THEN Reply(Err(DestinationError(S, from, to)), S)
    ELSE Reply(Ok("unit"), Put(S, to, S[from]))

op_rename(S, from, to, f) ==
    IF f # "none" THEN Reply(Err(f), S)
    ELSE IF DestinationError(S, from, to) # "none"
         THEN Reply(Err(DestinationError(S, from, to)), S)
    ELSE Reply(Ok("unit"), Put([S EXCEPT ![from] = NoEntry], to, S[from]))

op_remove_all(S, path, f) ==
    IF f # "none" THEN Reply(Err(f), S)
    ELSE Reply(Ok("unit"), [q \in Paths |-> IF IsPrefix(path, q) THEN NoEntry ELSE S[q]])

----------------------------------------------------------------------------
(* Backend construction (opendal builders and Operator::new), from spec.md
   4.1: optional fields are applied verbatim, construction fails with
   ConfigurationError on an empty bucket or an unusable root. *)

GcsDefault ==
    [bucket |-> "", credential_path |-> None, credential |-> None,
     endpoint |-> None, default_storage_class |-> None,
     predefined_acl |-> None, root |-> None]

FsDefault == [root |-> None]

UsableRoots == {"/tmp/store"}

OperatorNew(scheme, builder) ==
    IF scheme = "gcs" /\ builder.bucket = "" THEN Err("ConfigurationError")
    ELSE IF scheme = "fs" /\ (builder.root = None \/ builder.root[1] \notin UsableRoots)
         THEN Err("ConfigurationError")
    ELSE Ok([scheme |-> scheme, cfg |-> builder])

op_info(op) ==
    [scheme |-> op.scheme,
     root |-> IF op.cfg.root = None THEN "/" ELSE op.cfg.root[1],
     name |-> IF op.scheme = "gcs" THEN op.cfg.bucket ELSE ""]

----------------------------------------------------------------------------
(* The facade: impl OpenDALOperator in lib.rs.  A factory yields
   [builder, res]: the configuration handed to Operator::new and the
   Result<Self>.  A method yields [res, raw, store, req]: the Result returned
   to the caller, the backend's response kind, the namespace after the call,
   and the number of backend requests the method issued. *)

new_fs(root_path) ==
    LET builder == [FsDefault EXCEPT !.root = Some(root_path)]
        r == OperatorNew("fs", builder)
    IN  [builder |-> builder,
         res |-> IF r.ok THEN Ok([op |-> r.val]) ELSE Err(r.err)]

\* faulty variant: two independent ifs, so that both credential sources are applied
GcsBuilderBoth(bucket, credential_path, credential_json_content, endpoint, default_storage_class, predefined_acl, root) ==
    LET b0 == [GcsDefault EXCEPT !.bucket = bucket]
        b1 == IF credential_path # None
              THEN [b0 EXCEPT !.credential_path = Some(credential_path[1])] ELSE b0
        b2 == IF credential_json_content # None
              THEN [b1 EXCEPT !.credential = Some(credential_json_content[1])] ELSE b1
        b3 == IF endpoint # None
              THEN [b2 EXCEPT !.endpoint = Some(endpoint[1])] ELSE b2
        b4 == IF default_storage_class # None
              THEN [b3 EXCEPT !.default_storage_class = Some(default_storage_class[1])]
              ELSE b3
        b5 == IF predefined_acl # None
              THEN [b4 EXCEPT !.predefined_acl = Some(predefined_acl[1])] ELSE b4
    IN  IF root # None THEN [b5 EXCEPT !.root = Some(root[1])] ELSE b5

\* new_gcs, lines 166-189: the builder handed to Operator::new
GcsBuilder(bucket, credential_path, credential_json_content, endpoint, default_storage_class, predefined_acl, root) ==
    LET b0 == [GcsDefault EXCEPT !.bucket = bucket]
        b1 == IF credential_path # None
              THEN [b0 EXCEPT !.credential_path = Some(credential_path[1])]
              ELSE IF credential_json_content # None
                   THEN [b0 EXCEPT !.credential = Some(credential_json_content[1])]
              ELSE b0
        b2 == IF endpoint # None
              THEN [b1 EXCEPT !.endpoint = Some(endpoint[1])] ELSE b1
        b3 == IF default_storage_class # None
              THEN [b2 EXCEPT !.default_storage_class = Some(default_storage_class[1])]
              ELSE b2
        b4 == IF predefined_acl # None
              THEN [b3 EXCEPT !.predefined_acl = Some(predefined_acl[1])] ELSE b3
    IN  IF root # None THEN [b4 EXCEPT !.root = Some(root[1])] ELSE b4

\* faulty variant: the error of Operator::new is dropped and an operator returned
new_gcs_unchecked(bucket, credential_path, credential_json_content, endpoint, default_storage_class, predefined_acl, root) ==
    LET builder == [GcsDefault EXCEPT !.bucket = bucket]
    IN  [builder |-> builder,
         res |-> Ok([op |-> [scheme |-> "gcs", cfg |-> builder]])]

new_gcs(bucket, credential_path, credential_json_content, endpoint, default_storage_class, predefined_acl, root) ==
    LET builder == GcsBuilder(bucket, credential_path, credential_json_content,
                              endpoint, default_storage_class, predefined_acl, root)
        r == OperatorNew("gcs", builder)
    IN  [builder |-> builder,
         res |-> IF r.ok THEN Ok([op |-> r.val]) ELSE Err(r.err)]

OpenDALOperatorInfo(i) == [info |-> i]

info(self) == OpenDALOperatorInfo(op_info(self.op))

OpenDALMetadata(m) == [meta |-> m]

\* faulty variant: exists written as stat(path) succeeding
exists_by_stat(S, path, f) ==
    LET r == op_stat(S, path, f)
    IN  [res |-> IF r.res.ok THEN Ok(TRUE) ELSE Err(r.res.err),
         raw |-> r.raw, store |-> r.store, req |-> 1]

exists(S, path, f) ==
    LET r == op_exists(S, path, f)
    IN  [res |-> IF r.res.ok THEN Ok(r.res.val) ELSE Err(r.res.err),
         raw |-> r.raw, store |-> r.store, req |-> 1]

stat(S, path, f) ==
    LET r == op_stat(S, path, f)
    IN  [res |-> IF r.res.ok THEN Ok(OpenDALMetadata(r.res.val)) ELSE Err(r.res.err),
         raw |-> r.raw, store |-> r.store, req |-> 1]

\* faulty variant: a failed create_dir is tried a second time
create_dir_retry(S, path, f) ==
    LET r == op_create_dir(S, path, f)
        t == op_create_dir(r.store, path, f)
    IN  IF r.res.ok
        THEN [res |-> Ok("unit"), raw |-> r.raw, store |-> r.store, req |-> 1]
        ELSE [res |-> IF t.res.ok THEN Ok("unit") ELSE Err(t.res.err),
              raw |-> t.raw, store |-> t.store, req |-> 2]

create_dir(S, path, f) ==
    LET r == op_create_dir(S, path, f)
    IN  [res |-> IF r.res.ok THEN Ok("unit") ELSE Err(r.res.err),
         raw |-> r.raw, store |-> r.store, req |-> 1]

\* faulty variant: entry.path() in place of entry.name()
list_paths(S, path, ord, f) ==
    LET r == op_list(S, path, ord, f)
    IN  [res |-> IF r.res.ok
                 THEN Ok([i \in DOMAIN r.res.val |-> r.res.val[i].path])
                 ELSE Err(r.res.err),
         raw |-> r.raw, store |-> r.store, req |-> 1]

list(S, path, ord, f) ==
    LET r == op_list(S, path, ord, f)
    IN  [res |-> IF r.res.ok
                 THEN Ok([i \in DOMAIN r.res.val |-> EntryName(r.res.val[i])])
                 ELSE Err(r.res.err),
         raw |-> r.raw, store |-> r.store, req |-> 1]

\* content.to_vec() and Raw::from_bytes copy the bytes one by one
RawFromBytes(content) == [i \in 1..Len(content) |-> content[i] % 256]

read_raw(S, path, f) ==
    LET r == op_read(S, path, f)
    IN  [res |-> IF r.res.ok THEN Ok(RawFromBytes(r.res.val)) ELSE Err(r.res.err),
         raw |-> r.raw, store |-> r.store, req |-> 1]

\* faulty variant: the data is not handed to the backend
write_empty(S, path, data, f) ==
    LET r == op_write(S, path, <<>>, f)
    IN  [res |-> IF r.res.ok THEN Ok("unit") ELSE Err(r.res.err),
         raw |-> r.raw, store |-> r.store, req |-> 1]

write(S, path, data, f) ==
    LET r == op_write(S, path, data, f)
    IN  [res |-> IF r.res.ok THEN Ok("unit") ELSE Err(r.res.err),
         raw |-> r.raw, store |-> r.store, req |-> 1]

\* faulty variant: delete checks the entry first and fails on an absent one
delete_strict(S, path, f) ==
    LET m == op_stat(S, path, f)
        r == op_delete(S, path, f)
    IN  IF ~m.res.ok
        THEN [res |-> Err(m.res.err), raw |-> m.raw, store |-> S, req |-> 1]
        ELSE [res |-> IF r.res.ok THEN Ok("unit") ELSE Err(r.res.err),
              raw |-> r.raw, store |-> r.store, req |-> 2]

delete(S, path, f) ==
    LET r == op_delete(S, path, f)
    IN  [res |-> IF r.res.ok THEN Ok("unit") ELSE Err(r.res.err),
         raw |-> r.raw, store |-> r.store, req |-> 1]

\* faulty variant: the two paths are handed over in the wrong order
copy_swapped(S, source_path, destination_path, f) ==
    LET r == op_copy(S, destination_path, source_path, f)
    IN  [res |-> IF r.res.ok THEN Ok("unit") ELSE Err(r.res.err),
         raw |-> r.raw, store |-> r.store, req |-> 1]

copy(S, source_path, destination_path, f) ==
    LET r == op_copy(S, source_path, destination_path, f)
    IN  [res |-> IF r.res.ok THEN Ok("unit") ELSE Err(r.res.err),
         raw |-> r.raw, store |-> r.store, req |-> 1]

\* faulty variant: rename forwards to the backend's copy
rename_as_copy(S, old_path, new_path, f) ==
    LET r == op_copy(S, old_path, new_path, f)
    IN  [res |-> IF r.res.ok THEN Ok("unit") ELSE Err(r.res.err),
         raw |-> r.raw, store |-> r.store, req |-> 1]

rename(S, old_path, new_path, f) ==
    LET r == op_rename(S, old_path, new_path, f)
    IN  [res |-> IF r.res.ok THEN Ok("unit") ELSE Err(r.res.err),
         raw |-> r.raw, store |-> r.store, req |-> 1]

\* faulty variant: remove_all forwards to the backend's single-entry delete
remove_all_as_delete(S, path, f) ==
    LET r == op_delete(S, path, f)
    IN  [res |-> IF r.res.ok THEN Ok("unit") ELSE Err(r.res.err),
         raw |-> r.raw, store |-> r.store, req |-> 1]

remove_all(S, path, f) ==
    LET r == op_remove_all(S, path, f)
    IN  [res |-> IF r.res.ok THEN Ok("unit") ELSE Err(r.res.err),
         raw |-> r.raw, store |-> r.store, req |-> 1]

----------------------------------------------------------------------------
(* State machine *)

Buckets == {"", "bucket"}

RootPaths == {"/tmp/store", "/nonexistent"}

Opt(v) == {None, Some(v)}

NoCall ==
    [op |-> "none", path |-> <<>>, path2 |-> <<>>, data |-> <<>>,
     fault |-> "none", res |-> Ok("unit"), raw |-> "ok", req |-> 0,
     after |-> [op |-> "none", data |-> <<>>, changed |-> FALSE]]

NoCtor == [op |-> "none", args |-> <<>>, builder |-> FsDefault, res |-> Err("none")]

\* what the preceding call did to path, when it was a successful write or
\* delete: its data, and whether it replaced or removed what was there
After(path) ==
    IF last.res.ok /\ last.op \in {"write", "delete"} /\ last.path = path
    THEN [op |-> last.op, data |-> last.data,
          changed |-> pre[path].kind # "none" /\ pre[path] # store[path]]
    ELSE [op |-> "none", data |-> <<>>, changed |-> FALSE]

Construct(opname, args, c) ==
    /\ ctor' = [op |-> opname, args |-> args, builder |-> c.builder, res |-> c.res]
    /\ operator' = IF c.res.ok THEN Some(c.res.val) ELSE None
    /\ infoSeen' = None
    /\ UNCHANGED <<store, pre, last>>

NewFs == \E root_path \in RootPaths :
    Construct("new_fs", <<root_path>>, new_fs(root_path))

NewGcs ==
    \E bucket \in Buckets, cp \in Opt("cred.json"), cc \in Opt("{key}"),
       ep \in Opt("http://gcs"), dsc \in Opt("NEARLINE"),
       acl \in Opt("private"), r \in Opt("/data") :
        Construct("new_gcs", <<bucket, cp, cc, ep, dsc, acl, r>>,
                  new_gcs(bucket, cp, cc, ep, dsc, acl, r))

Info ==
    /\ operator # None
    /\ infoSeen' = Some(info(operator[1]))
    /\ UNCHANGED <<operator, ctor, store, pre, last>>

Call(opname, path, path2, data, f, c) ==
    /\ operator # None
    /\ last' = [op |-> opname, path |-> path, path2 |-> path2, data |-> data,
                fault |-> f, res |-> c.res, raw |-> c.raw, req |-> c.req,
                after |-> After(path)]
    /\ store' = c.store
    /\ pre' = store
    /\ UNCHANGED <<operator, ctor, infoSeen>>

Exists == \E p \in Paths, f \in Faults :
    Call("exists", p, p, <<>>, f, exists(store, p, f))

Stat == \E p \in Paths, f \in Faults :
    Call("stat", p, p, <<>>, f, stat(store, p, f))

CreateDir == \E p \in Paths, f \in Faults :
    Call("create_dir", p, p, <<>>, f, create_dir(store, p, f))

List == \E p \in Paths, f \in Faults : \E ord \in Orders(store, p) :
    Call("list", p, p, <<>>, f, list(store, p, ord, f))

ReadRaw == \E p \in Paths, f \in Faults :
    Call("read_raw", p, p, <<>>, f, read_raw(store, p, f))

Write == \E p \in Paths, d \in ByteSeqs, f \in Faults :
    Call("write", p, p, d, f, write(store, p, d, f))

Delete == \E p \in Paths, f \in Faults :
    Call("delete", p, p, <<>>, f, delete(store, p, f))

Copy == \E a \in Paths, b \in Paths, f \in Faults :
    Call("copy", a, b, <<>>, f, copy(store, a, b, f))

Rename == \E a \in Paths, b \in Paths, f \in Faults :
    Call("rename", a, b, <<>>, f, rename(store, a, b, f))

RemoveAll == \E p \in Paths, f \in Faults :
    Call("remove_all", p, p, <<>>, f, remove_all(store, p, f))

\* a filesystem operator over an empty directory, as new_fs returns it
Init ==
    /\ ctor = [op |-> "new_fs", args |-> <<"/tmp/store">>,
               builder |-> new_fs("/tmp/store").builder,
               res |-> new_fs("/tmp/store").res]
    /\ operator = Some(new_fs("/tmp/store").res.val)
    /\ infoSeen = None
    /\ store = EmptyRoot
    /\ pre = EmptyRoot
    /\ last = NoCall

Next ==
    \/ Exists
    \/ Stat
    \/ CreateDir
    \/ List
    \/ ReadRaw
    \/ Write
    \/ Delete
    \/ Copy
    \/ Rename
    \/ RemoveAll

Spec == Init /\ [][Next]_vars

\* the factories, from a caller that holds no operator yet
InitFactory ==
    /\ ctor = NoCtor
    /\ operator = None
    /\ infoSeen = None
    /\ store = EmptyRoot
    /\ pre = EmptyRoot
    /\ last = NoCall

NextFactory ==
    \/ NewFs
    \/ NewGcs
    \/ Info

SpecFactory == InitFactory /\ [][NextFactory]_vars

----------------------------------------------------------------------------
(* What a caller observes of the namespace, through the facade, when the
   backend answers without a fault *)

ExistsIn(S, q) == exists(S, q, "none").res

ReadIn(S, q) == read_raw(S, q, "none").res

Range(s) == {s[i] : i \in DOMAIN s}

Mutating == {"write", "delete", "copy", "rename", "remove_all", "create_dir"}

----------------------------------------------------------------------------
(* Properties *)

\* C1: a read_raw(p) that directly follows a successful write(p, b) returns
\* exactly b, for every b including the empty sequence; and after every
\* successful write(p, b), whatever p held before, read_raw(p) yields b.
C1_WriteReadRoundTrip ==
    /\ (last.op = "read_raw" /\ last.after.op = "write" /\ last.fault = "none")
        => (last.res.ok /\ last.res.val = last.after.data)
    /\ (last.op = "write" /\ last.res.ok)
        => (ReadIn(store, last.path).ok /\ ReadIn(store, last.path).val = last.data)

\* a read that follows a write which replaced other content, and returns the new
C1_Witness ==
    /\ last.op = "read_raw" /\ last.after.op = "write" /\ last.after.changed
    /\ last.res.ok /\ last.res.val = last.after.data

\* C2: on an absent path and without a backend fault exists returns the normal
\* value false and stat fails with NotFoundError; exists never reports
\* NotFoundError; and a call whose backend response was not-found returns a
\* normal result only when it is exists.
C2_ExistsFalseStatNotFound ==
    /\ (last.op = "exists" /\ pre[last.path].kind = "none" /\ last.fault = "none")
        => (last.res.ok /\ last.res.val = FALSE)
    /\ (last.op = "exists") => last.res.err # "NotFoundError"
    /\ (last.op = "stat" /\ pre[last.path].kind = "none" /\ last.fault = "none")
        => (~last.res.ok /\ last.res.err = "NotFoundError")
    /\ (last.raw = "NotFoundError" /\ last.res.ok) => last.op = "exists"
    /\ (last.raw = "NotFoundError" /\ last.op # "exists")
        => last.res.err = "NotFoundError"

\* exists on a path that the preceding call removed
C2_Witness ==
    /\ last.op = "exists" /\ last.after.op = "delete" /\ last.after.changed
    /\ last.res.ok /\ last.res.val = FALSE /\ last.raw = "NotFoundError"

\* C3: new_gcs applies credential_path when it is present and then no
\* credential; credential_json_content only when credential_path is absent;
\* neither when both are absent; never both.
C3_CredentialPrecedence ==
    ctor.op = "new_gcs" =>
        LET cp == ctor.args[2]
            cc == ctor.args[3]
        IN  /\ ctor.builder.credential_path = cp
            /\ ctor.builder.credential = IF cp = None THEN cc ELSE None
            /\ ~(ctor.builder.credential_path # None /\ ctor.builder.credential # None)

\* both sources supplied, only credential_path in the configuration
C3_Witness ==
    /\ ctor.op = "new_gcs" /\ ctor.args[2] # None /\ ctor.args[3] # None
    /\ ctor.builder.credential_path = ctor.args[2]
    /\ ctor.builder.credential = None

\* C4: without a backend fault a delete(p) that directly follows a successful
\* delete(p) succeeds, and so does every delete of an absent p, changing
\* nothing; after every successful delete(p) exists(p) is false and every
\* other entry is as before.
C4_IdempotentDelete ==
    /\ (last.op = "delete" /\ last.after.op = "delete" /\ last.fault = "none")
        => (last.res.ok /\ store = pre)
    /\ (last.op = "delete" /\ pre[last.path].kind = "none" /\ last.fault = "none")
        => (last.res.ok /\ store = pre)
    /\ (last.op = "delete" /\ last.res.ok)
        => /\ ExistsIn(store, last.path).ok
           /\ ExistsIn(store, last.path).val = FALSE
           /\ \A q \in Paths \ {last.path} : store[q] = pre[q]

\* the second of two deletes, the first of which removed the entry
C4_Witness ==
    /\ last.op = "delete" /\ last.after.op = "delete" /\ last.after.changed
    /\ last.res.ok

\* C5: after a successful copy(a, b), read_raw(b) equals read_raw(a), and a
\* reads as it did before the call; copy(a, b) with a absent fails, with
\* NotFoundError when the backend answers without a fault.
C5_Copy ==
    /\ (last.op = "copy" /\ last.res.ok)
        => /\ ReadIn(pre, last.path).ok
           /\ ReadIn(store, last.path).ok
           /\ ReadIn(store, last.path2).ok
           /\ ReadIn(store, last.path2).val = ReadIn(store, last.path).val
           /\ ReadIn(store, last.path).val = ReadIn(pre, last.path).val
           /\ store[last.path] = pre[last.path]
    /\ (last.op = "copy" /\ pre[last.path].kind = "none")
        => /\ ~last.res.ok
           /\ last.fault = "none" => last.res.err = "NotFoundError"

\* a copy of non-empty content onto a path that held something else
C5_Witness ==
    /\ last.op = "copy" /\ last.res.ok /\ last.path # last.path2
    /\ pre[last.path].data # <<>>
    /\ pre[last.path2] # store[last.path2]
    /\ store[last.path2].data = pre[last.path].data

\* C6: after a successful rename(a, b), exists(a) is false and read_raw(b) is
\* the content a had before, also when b existed; rename(a, b) with a absent
\* fails, with NotFoundError when the backend answers without a fault.
C6_Rename ==
    /\ (last.op = "rename" /\ last.res.ok)
        => /\ ExistsIn(store, last.path).ok
           /\ ExistsIn(store, last.path).val = FALSE
           /\ ReadIn(pre, last.path).ok
           /\ ReadIn(store, last.path2).ok
           /\ ReadIn(store, last.path2).val = ReadIn(pre, last.path).val
    /\ (last.op = "rename" /\ pre[last.path].kind = "none")
        => /\ ~last.res.ok
           /\ last.fault = "none" => last.res.err = "NotFoundError"

\* a rename onto an existing file of other content
C6_Witness ==
    /\ last.op = "rename" /\ last.res.ok
    /\ pre[last.path2].kind = "file"
    /\ pre[last.path2].data # pre[last.path].data
    /\ store[last.path2].data = pre[last.path].data
    /\ store[last.path].kind = "none"

\* C7: remove_all(p) succeeds whenever the backend answers without a fault,
\* also on an absent p; after a successful remove_all(p) exists(q) is false
\* for every q equal to or under p and every other entry is as before.
C7_RemoveAll ==
    /\ (last.op = "remove_all" /\ last.fault = "none") => last.res.ok
    /\ (last.op = "remove_all" /\ last.res.ok)
        => \A q \in Paths :
              IF IsPrefix(last.path, q)
              THEN ExistsIn(store, q).ok /\ ExistsIn(store, q).val = FALSE
              ELSE store[q] = pre[q]

\* remove_all("") over a namespace that held x.txt and dir/file
C7_Witness ==
    /\ last.op = "remove_all" /\ last.res.ok /\ last.path = <<>>
    /\ pre[<<"x.txt">>].kind = "file" /\ pre[<<"dir", "file">>].kind = "file"
    /\ ExistsIn(store, <<"x.txt">>).val = FALSE

\* C8: a successful list(p) returns, once each, the last components of the
\* direct children of p and nothing else; it succeeds on every directory when
\* the backend answers without a fault, with the empty sequence on an empty
\* one, and fails with NotFoundError on an absent p; after a successful
\* write of dir/file, list(dir) includes "file".
C8_List ==
    /\ (last.op = "list" /\ last.res.ok)
        => /\ Range(last.res.val)
                = {<<q[Len(q)]>> : q \in Children(pre, last.path)}
           /\ Len(last.res.val) = Cardinality(Children(pre, last.path))
    /\ (last.op = "list" /\ pre[last.path].kind = "dir" /\ last.fault = "none")
        => /\ last.res.ok
           /\ Children(pre, last.path) = {} => last.res.val = <<>>
    /\ (last.op = "list" /\ pre[last.path].kind = "none" /\ last.fault = "none")
        => (~last.res.ok /\ last.res.err = "NotFoundError")
    /\ (last.op = "write" /\ last.res.ok)
        => LET dir == SubSeq(last.path, 1, Len(last.path) - 1)
           IN  \A ord \in Orders(store, dir) :
                   /\ list(store, dir, ord, "none").res.ok
                   /\ <<last.path[Len(last.path)]>>
                          \in Range(list(store, dir, ord, "none").res.val)

\* list("dir") returning "file" and not "dir/file"
C8_Witness ==
    /\ last.op = "list" /\ last.res.ok /\ last.path = <<"dir">>
    /\ last.res.val = << <<"file">> >>

\* C9: new_gcs with an empty bucket fails with ConfigurationError and hands
\* no operator to the caller; a factory call hands over an operator exactly
\* when it succeeded, and that operator carries the whole configuration built
\* from the arguments, which the backend accepts; info() is only ever
\* answered by such an operator.
C9_FactoryAllOrNothing ==
    /\ (ctor.op = "new_gcs" /\ ctor.args[1] = "")
        => (~ctor.res.ok /\ ctor.res.err = "ConfigurationError" /\ operator = None)
    /\ (ctor.op # "none") => (ctor.res.ok <=> operator # None)
    /\ (operator # None)
        => /\ operator[1].op.cfg = ctor.builder
           /\ OperatorNew(operator[1].op.scheme, operator[1].op.cfg).ok
           /\ (ctor.op = "new_gcs") =>
                 operator[1].op.cfg
                     = GcsBuilder(ctor.args[1], ctor.args[2], ctor.args[3],
                                  ctor.args[4], ctor.args[5], ctor.args[6],
                                  ctor.args[7])
    /\ (infoSeen # None)
        => (operator # None /\ ctor.res.ok /\ infoSeen[1].info.scheme = operator[1].op.scheme)

\* new_gcs with an empty bucket and every option set: an error, no operator
C9_Witness ==
    /\ ctor.op = "new_gcs" /\ ctor.args[1] = ""
    /\ ctor.args[2] # None /\ ctor.args[7] # None
    /\ ~ctor.res.ok /\ operator = None /\ infoSeen = None

\* C10: a mutating call that returns an error leaves the namespace as it was;
\* every call issues exactly one backend request; a backend failure is
\* returned as it is, with its kind (exists alone answers a not-found response
\* with a normal value).
C10_FailureAtomicity ==
    /\ (last.op \in Mutating /\ ~last.res.ok) => store = pre
    /\ (last.op # "none") => last.req = 1
    /\ (last.fault # "none") => (~last.res.ok /\ last.res.err = last.fault)
    /\ (last.raw # "ok" /\ ~(last.op = "exists" /\ last.raw = "NotFoundError"))
        => (~last.res.ok /\ last.res.err = last.raw)

\* a rename of an existing file that the backend refuses
C10_Witness ==
    /\ last.op = "rename" /\ last.fault = "PermissionError"
    /\ pre[last.path].kind = "file" /\ last.path # last.path2
    /\ ~last.res.ok /\ last.res.err = "PermissionError" /\ store = pre

====
